---- MODULE Spec2Model ----
(***************************************************************************)
(* A model of the allocators crate: the scoped (bump) allocator of         *)
(* src/src/scoped.rs, the free-list pool allocator of                      *)
(* src/src/freelist.rs, the composable allocators of                       *)
(* src/src/composable.rs and the AllocBox of src/src/boxed.rs, with the    *)
(* helpers of src/src/lib.rs they use.                                     *)
(*                                                                         *)
(* Pointers are natural numbers; the null pointer is 0.                    *)
(***************************************************************************)
EXTENDS Integers, Sequences, FiniteSets, TLC

(***************************************************************************)
(* Bounds of the model.                                                    *)
(***************************************************************************)
\* size in bytes of the non-empty buffer a root Scoped is created with
BufSize == 3
\* largest size of a request made to a Scoped
MaxReq == 2
\* deepest chain of nested scope() calls, the root included
MaxDepth == 3
\* most blocks of a Scoped hierarchy that callers hold at a time
MaxLive == 2
\* largest num_blocks a FreeList is created with
MaxBlocks == 3
\* the blocks allocated for AllocBoxes in one run
MaxBoxes == 3

(***************************************************************************)
(* Program constants.                                                      *)
(***************************************************************************)
\* mem::size_of::<*mut u8>() on a 64-bit target
PtrSize == 8
\* mem::align_of::<*mut u8>() on a 64-bit target
PtrAlign == 8

NULL == 0

\* address of the buffer the parent allocator hands to Scoped::new_from
\* (aligned to align_of::<usize>())
BufBase == 8

\* addresses of the blocks the backing allocator hands to FreeList::new_from:
\* the k-th block it issues is at HeapBase + k * HeapStride
HeapBase == 64
HeapStride == 16

VARIABLES
    \* ---- Scoped hierarchy ----
    scopes,          \* the chain root..innermost of Scoped values
    olds,            \* the local `old` of every scope() call in progress
    parent_deallocs, \* calls of dealloc made to the parent allocator
    live,            \* blocks callers hold: issued and not yet given back
    entry_current,   \* history: current of the parent just before scope()
    result,          \* the last Scoped operation and what it returned
    copied,          \* the bytes the last Scoped operation copied
    \* ---- FreeList ----
    fl,              \* the FreeList value: state, block_size, free_list
    next_ptr,        \* memory: the pointer stored in a block's leading bytes
    heap_out,        \* blocks the backing allocator has outstanding
    heap_deallocs,   \* calls of dealloc made to the backing allocator
    heap_next,       \* number of blocks the backing allocator has issued
    checked_out,     \* blocks of the FreeList that callers hold
    fl_result,       \* the last FreeList operation and what it returned
    fl_hist,         \* history: the outcomes of the last three FreeList calls
    \* ---- composable allocators ----
    tree,            \* the allocator under use: a composition of allocators
    arenas,          \* the Scoped values at the leaves of the composition
    held,            \* the Blocks callers hold
    calls,           \* the calls the last operation made to allocators
    written,         \* the lines the last operation wrote to the writer
    comp_result,     \* the last operation on the composition and its result
    \* ---- AllocBox ----
    boxes,           \* the AllocBoxes that exist
    objs,            \* per block issued: the value in it and what happened to it
    box_events,      \* what the last operation did to values and blocks, in order
    box_result       \* the last operation on an AllocBox and its result

scoped_vars == <<scopes, olds, parent_deallocs, live, entry_current, result,
                 copied>>
fl_vars == <<fl, next_ptr, heap_out, heap_deallocs, heap_next, checked_out,
             fl_result, fl_hist>>
comp_vars == <<tree, arenas, held, calls, written, comp_result>>
box_vars == <<boxes, objs, box_events, box_result>>
vars == <<scopes, olds, parent_deallocs, live, entry_current, result, copied,
          fl, next_ptr, heap_out, heap_deallocs, heap_next, checked_out,
          fl_result, fl_hist,
          tree, arenas, held, calls, written, comp_result,
          boxes, objs, box_events, box_result>>

(***************************************************************************)
(* lib.rs: Layout, Error and align_forward.                                *)
(***************************************************************************)
Layout(size, align) == [size |-> size, align |-> align]

\* AllocErr::invalid_input(details)
invalid_input(details) == [kind |-> "Unsupported", details |-> details]

\* Error::unsupported_alignment()
unsupported_alignment == invalid_input("unsupported alignment")

\* Error::out_of_memory(request)
out_of_memory(request) == [kind |-> "Exhausted", request |-> request]

Ok(v) == [ok |-> TRUE, val |-> v]
Err(e) == [ok |-> FALSE, err |-> e]
\* the Err(()) of scope()
ScopedErr == [kind |-> "()"]
\* the call does not return: it panics and the stack unwinds
Panic == [ok |-> FALSE, err |-> [kind |-> "panic"]]

RECURSIVE BitAnd(_, _)
BitAnd(a, b) ==
    IF a = 0 \/ b = 0 THEN 0
    ELSE (a % 2) * (b % 2) + 2 * BitAnd(a \div 2, b \div 2)

\* (ptr + align - 1) & !(align - 1): clearing the bits of align - 1
align_forward(ptr, align) ==
    LET s == ptr + align - 1
    IN  s - BitAnd(s, align - 1)

(***************************************************************************)
(* scoped.rs: the Scoped value and its operations as functions of the      *)
(* value. Each returns the new value and what the call returns.            *)
(***************************************************************************)
\* Scoped::new_from, given the pointer the parent allocator returned
new_from(ptr, size) ==
    [current |-> ptr, end |-> ptr + size, root |-> TRUE, start |-> ptr]

is_scoped(s) == s.current = NULL

\* the child built by scope()
scope_child(s) ==
    [current |-> s.current, end |-> s.end, root |-> FALSE, start |-> s.current]

\* Faulty variant: alloc that does not look at the lock
ScopedAlloc_NoLockCheck(s, layout) ==
    IF layout.size = 0
    THEN [self |-> s, ret |-> Err(invalid_input("Can't allocate 0"))]
    ELSE LET current_ptr == s.current
             aligned_ptr == align_forward(current_ptr, layout.align)
             end_ptr == aligned_ptr + layout.size
         IN  IF end_ptr > s.end
             THEN [self |-> s, ret |-> Err(out_of_memory(layout))]
             ELSE [self |-> [s EXCEPT !.current = end_ptr],
                   ret |-> Ok(aligned_ptr)]

\* Faulty variant: alloc that refuses a request ending exactly at end
ScopedAlloc_OffByOne(s, layout) ==
    IF is_scoped(s)
    THEN [self |-> s,
          ret |-> Err(invalid_input("Called allocate on already scoped allocator."))]
    ELSE IF layout.size = 0
    THEN [self |-> s, ret |-> Err(invalid_input("Can't allocate 0"))]
    ELSE LET current_ptr == s.current
             aligned_ptr == align_forward(current_ptr, layout.align)
             end_ptr == aligned_ptr + layout.size
         IN  IF end_ptr >= s.end
             THEN [self |-> s, ret |-> Err(out_of_memory(layout))]
             ELSE [self |-> [s EXCEPT !.current = end_ptr],
                   ret |-> Ok(aligned_ptr)]

\* Faulty variant: alloc that returns the aligned pointer and leaves current
ScopedAlloc_NoBump(s, layout) ==
    IF is_scoped(s)
    THEN [self |-> s,
          ret |-> Err(invalid_input("Called allocate on already scoped allocator."))]
    ELSE IF layout.size = 0
    THEN [self |-> s, ret |-> Err(invalid_input("Can't allocate 0"))]
    ELSE LET current_ptr == s.current
             aligned_ptr == align_forward(current_ptr, layout.align)
             end_ptr == aligned_ptr + layout.size
         IN  IF end_ptr > s.end
             THEN [self |-> s, ret |-> Err(out_of_memory(layout))]
             ELSE [self |-> s, ret |-> Ok(aligned_ptr)]

ScopedAlloc(s, layout) ==
    IF is_scoped(s)
    THEN [self |-> s,
          ret |-> Err(invalid_input("Called allocate on already scoped allocator."))]
    ELSE IF layout.size = 0
    THEN [self |-> s, ret |-> Err(invalid_input("Can't allocate 0"))]
    ELSE LET current_ptr == s.current
             aligned_ptr == align_forward(current_ptr, layout.align)
             end_ptr == aligned_ptr + layout.size
         IN  IF end_ptr > s.end
             THEN [self |-> s, ret |-> Err(out_of_memory(layout))]
             ELSE [self |-> [s EXCEPT !.current = end_ptr],
                   ret |-> Ok(aligned_ptr)]

\* ptr::copy_nonoverlapping(src, dst, count): count bytes go from src to dst
copy_nonoverlapping(src, dst, count) ==
    [src |-> src, dst |-> dst, count |-> count]

NoCopy == copy_nonoverlapping(NULL, NULL, 0)

\* ret is Panic where new_layout.size() - layout.size() overflows in a
\* build with overflow checks; without them the difference wraps and
\* offset() moves current back by layout.size - new_layout.size.
ScopedRealloc(s, ptr, layout, new_layout, checks) ==
    LET current_ptr == s.current
    IN  IF new_layout.size = 0
        THEN [self |-> s, ret |-> Err(invalid_input("Can't allocate 0")),
              copied |-> NoCopy]
        ELSE IF layout.align = 0
        THEN [self |-> s, ret |-> Err(unsupported_alignment), copied |-> NoCopy]
        ELSE IF ptr + layout.size = current_ptr /\ new_layout.align <= layout.align
        THEN IF checks /\ new_layout.size < layout.size
             THEN [self |-> s, ret |-> Panic, copied |-> NoCopy]
             ELSE LET new_cur == current_ptr + (new_layout.size - layout.size)
                  IN  IF new_cur < s.end
                      THEN [self |-> [s EXCEPT !.current = new_cur],
                            ret |-> Ok(ptr), copied |-> NoCopy]
                      ELSE [self |-> s, ret |-> Err(out_of_memory(new_layout)),
                            copied |-> NoCopy]
        ELSE LET r == ScopedAlloc(s, new_layout)
             IN  IF r.ret.ok
                 THEN [self |-> r.self, ret |-> Ok(r.ret.val),
                       copied |-> copy_nonoverlapping(ptr, r.ret.val,
                                                      layout.size)]
                 ELSE [self |-> r.self, ret |-> r.ret, copied |-> NoCopy]

\* Faulty variant: dealloc that rolls back to any block, not only the last one
ScopedDealloc_AnyBlock(s, ptr, layout) ==
    IF layout.size = 0 \/ ptr = NULL
    THEN s
    ELSE IF ~is_scoped(s) THEN [s EXCEPT !.current = ptr] ELSE s

ScopedDealloc(s, ptr, layout) ==
    IF layout.size = 0 \/ ptr = NULL
    THEN s
    ELSE LET current_ptr == s.current
         IN  IF ~is_scoped(s) /\ ptr + layout.size = current_ptr
             THEN [s EXCEPT !.current = ptr]
             ELSE s

\* BlockOwner::owns_block
owns_block(s, ptr) == ptr >= s.start /\ ptr <= s.end

\* Faulty variant: drop that does not look at the root flag
ScopedDrop_NoRootCheck(s) ==
    LET size == s.end - s.start
    IN  IF size > 0
        THEN <<[ptr |-> s.start, size |-> size, root |-> s.root]>>
        ELSE <<>>

\* Drop for Scoped: the calls of dealloc it makes to the parent allocator
ScopedDrop(s) ==
    LET size == s.end - s.start
    IN  IF s.root /\ size > 0
        THEN <<[ptr |-> s.start, size |-> size, root |-> s.root]>>
        ELSE <<>>

(***************************************************************************)
(* The Scoped hierarchy as a state machine. scopes[1] is the root; a       *)
(* scope() call in progress has a frame in olds (its local `old` and the   *)
(* Scoped it was called on) and its child at the same position + 1 of      *)
(* scopes. Callers may call any operation on any Scoped of the chain.      *)
(***************************************************************************)
Sizes == {0, BufSize}
Aligns == {1, 2}
Layouts == {Layout(sz, al) : sz \in 0..MaxReq, al \in Aligns}

NoLayout == Layout(0, 0)

Res(op, ret) == [op |-> op, ret |-> ret]

Blk(ptr, layout, d) == [ptr |-> ptr, layout |-> layout, depth |-> d]

RECURSIVE DropAll(_)
\* the Scoped values of the chain are dropped innermost first
DropAll(ss) ==
    IF ss = <<>> THEN <<>>
    ELSE ScopedDrop(ss[Len(ss)]) \o DropAll(SubSeq(ss, 1, Len(ss) - 1))

ScopedInit ==
    /\ \E size \in Sizes : scopes = <<new_from(BufBase, size)>>
    /\ olds = <<>>
    /\ parent_deallocs = <<>>
    /\ live = {}
    /\ entry_current = <<>>
    /\ result = Res("new_from", Ok(BufBase))
    /\ copied = NoCopy

\* every Scoped is dropped while the stack unwinds: the children that
\* scope() holds, then the root
Unwinding(res) ==
    /\ parent_deallocs' = parent_deallocs \o DropAll(scopes)
    /\ scopes' = <<>>
    /\ olds' = <<>>
    /\ live' = {}
    /\ entry_current' = <<>>
    /\ result' = res
    /\ copied' = NoCopy

Alloc(d, layout) ==
    /\ d \in 1..Len(scopes)
    /\ LET r == ScopedAlloc(scopes[d], layout)
       IN  /\ r.ret.ok => Cardinality(live) < MaxLive
           /\ scopes' = [scopes EXCEPT ![d] = r.self]
           /\ live' = IF r.ret.ok THEN live \cup {Blk(r.ret.val, layout, d)}
                      ELSE live
           /\ result' = Res("alloc", r.ret)
           /\ copied' = NoCopy
    /\ UNCHANGED <<olds, parent_deallocs, entry_current>>
    /\ UNCHANGED <<fl_vars, comp_vars, box_vars>>

\* overflow_checks: whether the build panics on arithmetic overflow
Realloc(d, blk, new_layout, overflow_checks) ==
    /\ d \in 1..Len(scopes)
    /\ blk \in live
    /\ LET r == ScopedRealloc(scopes[d], blk.ptr, blk.layout, new_layout,
                              overflow_checks)
           res == Res("realloc", r.ret)
       IN  IF r.ret = Panic
           THEN Unwinding(res)
           ELSE /\ scopes' = [scopes EXCEPT ![d] = r.self]
                /\ live' = IF r.ret.ok
                           THEN (live \ {blk})
                                    \cup {Blk(r.ret.val, new_layout, d)}
                           ELSE live
                /\ result' = res
                /\ copied' = r.copied
                /\ UNCHANGED <<olds, parent_deallocs, entry_current>>
    /\ UNCHANGED <<fl_vars, comp_vars, box_vars>>

\* the blocks a caller can pass to dealloc: one it holds, the same pointer
\* with a zero-sized layout, or the null pointer
DeallocArgs ==
    {<<b.ptr, b.layout>> : b \in live}
        \cup {<<b.ptr, Layout(0, b.layout.align)>> : b \in live}
        \cup {<<NULL, b.layout>> : b \in live}

Dealloc(d, ptr, layout) ==
    /\ d \in 1..Len(scopes)
    /\ <<ptr, layout>> \in DeallocArgs
    /\ scopes' = [scopes EXCEPT ![d] = ScopedDealloc(scopes[d], ptr, layout)]
    /\ live' = {b \in live : ~(b.ptr = ptr /\ b.layout = layout)}
    /\ result' = Res("dealloc", Ok(NULL))
    /\ copied' = NoCopy
    /\ UNCHANGED <<olds, parent_deallocs, entry_current>>
    /\ UNCHANGED <<fl_vars, comp_vars, box_vars>>

\* Faulty variant: scope() that does not lock the Scoped it is called on
ScopeCall_NoLock(d) ==
    /\ d \in 1..Len(scopes)
    /\ IF is_scoped(scopes[d])
       THEN /\ result' = Res("scope", Err(ScopedErr))
            /\ UNCHANGED <<scopes, olds, entry_current>>
       ELSE /\ Len(scopes) < MaxDepth
            /\ LET old == scopes[d].current
                   alloc == scope_child(scopes[d])
               IN  /\ scopes' = Append(scopes, alloc)
                   /\ olds' = Append(olds, [old |-> old, self |-> d])
            /\ entry_current' = Append(entry_current, scopes[d].current)
            /\ result' = Res("scope", Ok(NULL))
    /\ copied' = NoCopy
    /\ UNCHANGED <<parent_deallocs, live>>
    /\ UNCHANGED <<fl_vars, comp_vars, box_vars>>

\* scope(f) up to the call of f
ScopeCall(d) ==
    /\ d \in 1..Len(scopes)
    /\ IF is_scoped(scopes[d])
       THEN /\ result' = Res("scope", Err(ScopedErr))
            /\ UNCHANGED <<scopes, olds, entry_current>>
       ELSE /\ Len(scopes) < MaxDepth
            /\ LET old == scopes[d].current
                   alloc == scope_child(scopes[d])
               IN  /\ scopes' = Append([scopes EXCEPT ![d].current = NULL],
                                       alloc)
                   /\ olds' = Append(olds, [old |-> old, self |-> d])
            /\ entry_current' = Append(entry_current, scopes[d].current)
            /\ result' = Res("scope", Ok(NULL))
    /\ copied' = NoCopy
    /\ UNCHANGED <<parent_deallocs, live>>
    /\ UNCHANGED <<fl_vars, comp_vars, box_vars>>

\* Faulty variant: scope() that unlocks with the current of the child instead of old
ScopeReturn_KeepsChild ==
    /\ olds # <<>>
    /\ LET n == Len(scopes)
           frame == olds[Len(olds)]
       IN  /\ scopes' = [SubSeq(scopes, 1, n - 1)
                            EXCEPT ![frame.self].current = scopes[n].current]
           /\ live' = {b \in live : b.depth # n}
           /\ result' = Res("scope_return",
                            Ok(scopes[n].current - scopes[n].start))
    /\ olds' = SubSeq(olds, 1, Len(olds) - 1)
    /\ entry_current' = SubSeq(entry_current, 1, Len(entry_current) - 1)
    /\ copied' = NoCopy
    /\ UNCHANGED parent_deallocs
    /\ UNCHANGED <<fl_vars, comp_vars, box_vars>>

\* scope(f) from the return of f: the innermost call in progress returns
ScopeReturn ==
    /\ olds # <<>>
    /\ LET n == Len(scopes)
           frame == olds[Len(olds)]
       IN  /\ scopes' = [SubSeq(scopes, 1, n - 1)
                            EXCEPT ![frame.self].current = frame.old]
           /\ live' = {b \in live : b.depth # n}
           /\ result' = Res("scope_return",
                            Ok(scopes[n].current - scopes[n].start))
    /\ olds' = SubSeq(olds, 1, Len(olds) - 1)
    /\ entry_current' = SubSeq(entry_current, 1, Len(entry_current) - 1)
    /\ copied' = NoCopy
    /\ UNCHANGED parent_deallocs
    /\ UNCHANGED <<fl_vars, comp_vars, box_vars>>

\* f panics: scope() does not return and the stack unwinds
Unwind ==
    /\ olds # <<>>
    /\ Unwinding(Res("unwind", Panic))
    /\ UNCHANGED <<fl_vars, comp_vars, box_vars>>

\* the root Scoped goes out of scope while no scope() call is in progress
Drop ==
    /\ Len(scopes) = 1
    /\ olds = <<>>
    /\ parent_deallocs' = parent_deallocs \o DropAll(scopes)
    /\ scopes' = <<>>
    /\ live' = {}
    /\ result' = Res("drop", Ok(NULL))
    /\ copied' = NoCopy
    /\ UNCHANGED <<olds, entry_current>>
    /\ UNCHANGED <<fl_vars, comp_vars, box_vars>>

ScopedNext ==
    \/ \E d \in 1..MaxDepth, layout \in Layouts : Alloc(d, layout)
    \/ \E d \in 1..MaxDepth, blk \in live, new_layout \in Layouts,
          overflow_checks \in BOOLEAN :
           Realloc(d, blk, new_layout, overflow_checks)
    \/ \E d \in 1..MaxDepth, a \in DeallocArgs : Dealloc(d, a[1], a[2])
    \/ \E d \in 1..MaxDepth : ScopeCall(d)
    \/ ScopeReturn
    \/ Unwind
    \/ Drop

(***************************************************************************)
(* freelist.rs: the FreeList. The free list is threaded through memory:    *)
(* next_ptr[p] is the pointer stored in the leading bytes of the block     *)
(* at p.                                                                   *)
(***************************************************************************)
HeapAddr(k) == HeapBase + k * HeapStride

block_layout(block_size) == Layout(block_size, PtrAlign)

\* Faulty variant: drop that frees the head of the list and stops
FreeListDrop_HeadOnly(free_list, mem, visited) ==
    IF free_list = NULL THEN <<>> ELSE <<free_list>>

RECURSIVE FreeListDrop(_, _, _)
\* Drop for FreeList: the blocks it passes to the backing allocator's
\* dealloc, in order; visited bounds the walk by the blocks that exist
FreeListDrop(free_list, mem, visited) ==
    IF free_list = NULL \/ visited > Cardinality(DOMAIN mem)
    THEN <<>>
    ELSE LET next == mem[free_list]
         IN  <<free_list>> \o FreeListDrop(next, mem, visited + 1)

RECURSIVE NewFromLoop_NoCleanup(_, _, _, _, _, _)
\* Faulty variant: new_from that returns the error without dropping what it built
NewFromLoop_NoCleanup(i, num_blocks, fail_at, free_list, mem, issued) ==
    IF i > num_blocks
    THEN [ok |-> TRUE, free_list |-> free_list, mem |-> mem,
          issued |-> issued, deallocs |-> <<>>]
    ELSE IF i = fail_at
    THEN [ok |-> FALSE, free_list |-> free_list, mem |-> mem,
          issued |-> issued, deallocs |-> <<>>]
    ELSE LET ptr == HeapAddr(issued)
         IN  NewFromLoop_NoCleanup(i + 1, num_blocks, fail_at, ptr,
                                   (ptr :> free_list) @@ mem, issued + 1)

RECURSIVE NewFromLoop(_, _, _, _, _, _)
\* the loop of FreeList::new_from from its i-th round on; the backing
\* allocator fails the fail_at-th acquisition (0: none), and has issued
\* `issued` blocks before this round
NewFromLoop(i, num_blocks, fail_at, free_list, mem, issued) ==
    IF i > num_blocks
    THEN [ok |-> TRUE, free_list |-> free_list, mem |-> mem,
          issued |-> issued, deallocs |-> <<>>]
    ELSE IF i = fail_at
    THEN [ok |-> FALSE, free_list |-> free_list, mem |-> mem,
          issued |-> issued,
          deallocs |-> FreeListDrop(free_list, mem, 0)]
    ELSE LET ptr == HeapAddr(issued)
         IN  NewFromLoop(i + 1, num_blocks, fail_at, ptr,
                         (ptr :> free_list) @@ mem, issued + 1)

\* Faulty variant: alloc that looks at the free list before it checks the request
FreeListAlloc_ListFirst(f, mem, layout) ==
    LET free_list == f.free_list
    IN  IF free_list = NULL
        THEN [self |-> f, ret |-> Err(out_of_memory(layout))]
        ELSE IF layout.size = 0
        THEN [self |-> f, ret |-> Err(invalid_input("Can't allocate 0 bytes"))]
        ELSE IF layout.size > f.block_size
        THEN [self |-> f,
              ret |-> Err(invalid_input("Allocation must be within block size"))]
        ELSE IF layout.align > PtrAlign
        THEN [self |-> f, ret |-> Err(unsupported_alignment)]
        ELSE LET next_block == mem[free_list]
             IN  [self |-> [f EXCEPT !.free_list = next_block],
                  ret |-> Ok(free_list)]

\* Faulty variant: alloc that returns the head and leaves it on the free list
FreeListAlloc_KeepsHead(f, mem, layout) ==
    IF layout.size = 0
    THEN [self |-> f, ret |-> Err(invalid_input("Can't allocate 0 bytes"))]
    ELSE IF layout.size > f.block_size
    THEN [self |-> f,
          ret |-> Err(invalid_input("Allocation must be within block size"))]
    ELSE IF layout.align > PtrAlign
    THEN [self |-> f, ret |-> Err(unsupported_alignment)]
    ELSE LET free_list == f.free_list
         IN  IF free_list # NULL
             THEN [self |-> f, ret |-> Ok(free_list)]
             ELSE [self |-> f, ret |-> Err(out_of_memory(layout))]

\* FreeList::alloc on the value f with memory mem
FreeListAlloc(f, mem, layout) ==
    IF layout.size = 0
    THEN [self |-> f, ret |-> Err(invalid_input("Can't allocate 0 bytes"))]
    ELSE IF layout.size > f.block_size
    THEN [self |-> f,
          ret |-> Err(invalid_input("Allocation must be within block size"))]
    ELSE IF layout.align > PtrAlign
    THEN [self |-> f, ret |-> Err(unsupported_alignment)]
    ELSE LET free_list == f.free_list
         IN  IF free_list # NULL
             THEN LET next_block == mem[free_list]
                  IN  [self |-> [f EXCEPT !.free_list = next_block],
                       ret |-> Ok(free_list)]
             ELSE [self |-> f, ret |-> Err(out_of_memory(layout))]

\* Faulty variant: dealloc that forgets the block
FreeListDealloc_Leak(f, mem, ptr, layout) == [self |-> f, mem |-> mem]

\* Faulty variant: dealloc that appends the block behind the head of the list
FreeListDealloc_Behind(f, mem, ptr, layout) ==
    IF layout.size # 0
    THEN LET first == f.free_list
         IN  IF first = NULL
             THEN [self |-> [f EXCEPT !.free_list = ptr],
                   mem |-> [mem EXCEPT ![ptr] = NULL]]
             ELSE [self |-> f,
                   mem |-> [mem EXCEPT ![ptr] = mem[first], ![first] = ptr]]
    ELSE [self |-> f, mem |-> mem]

\* FreeList::dealloc: the new value and the new memory
FreeListDealloc(f, mem, ptr, layout) ==
    IF layout.size # 0
    THEN LET first == f.free_list
         IN  [self |-> [f EXCEPT !.free_list = ptr],
              mem |-> [mem EXCEPT ![ptr] = first]]
    ELSE [self |-> f, mem |-> mem]

(***************************************************************************)
(* The FreeList as a state machine: it is built once by new_from, serves   *)
(* alloc and dealloc while it lives, and is dropped.                       *)
(***************************************************************************)
BlockSizes == {PtrSize - 1, PtrSize}
FLLayouts == {Layout(sz, al) : sz \in {0, PtrSize, PtrSize + 1},
                               al \in {PtrAlign, 2 * PtrAlign}}

\* the error of the backing allocator when it fails an acquisition
HeapErr(layout) == out_of_memory(layout)

FLRes(op, ptr, layout, ret) ==
    [op |-> op, ptr |-> ptr, layout |-> layout, ret |-> ret]

Remember(h, tag) == <<h[2], h[3], tag>>

FreeListInit ==
    /\ fl = [state |-> "none", block_size |-> 0, free_list |-> NULL,
             num_blocks |-> 0]
    /\ next_ptr = <<>>
    /\ heap_out = {}
    /\ heap_deallocs = <<>>
    /\ heap_next = 0
    /\ checked_out = {}
    /\ fl_result = FLRes("none", NULL, NoLayout, Ok(NULL))
    /\ fl_hist = <<"none", "none", "none">>

Range(s) == {s[i] : i \in DOMAIN s}

NewFrom(block_size, num_blocks, fail_at) ==
    /\ fl.state = "none"
    /\ fail_at \in 0..num_blocks
    /\ IF block_size < PtrSize
       THEN /\ fl' = [fl EXCEPT !.state = "failed"]
            /\ fl_result' = FLRes("new_from", NULL, Layout(block_size, PtrAlign),
                                  Err(invalid_input("Block size too small.")))
            /\ UNCHANGED <<next_ptr, heap_out, heap_deallocs, heap_next>>
       ELSE LET r == NewFromLoop(1, num_blocks, fail_at, NULL, next_ptr,
                                 heap_next)
                acquired == {HeapAddr(k) : k \in heap_next..(r.issued - 1)}
            IN  /\ fl' = [state |-> IF r.ok THEN "live" ELSE "failed",
                          block_size |-> block_size,
                          free_list |-> r.free_list,
                          num_blocks |-> num_blocks]
                /\ next_ptr' = r.mem
                /\ heap_next' = r.issued
                /\ heap_deallocs' = heap_deallocs \o r.deallocs
                /\ heap_out' = (heap_out \cup acquired) \ Range(r.deallocs)
                /\ fl_result' = FLRes("new_from", NULL,
                                      block_layout(block_size),
                                      IF r.ok THEN Ok(NULL)
                                      ELSE Err(HeapErr(block_layout(block_size))))
    /\ fl_hist' = Remember(fl_hist, "new_from")
    /\ UNCHANGED checked_out
    /\ UNCHANGED <<scoped_vars, comp_vars, box_vars>>

\* a successful alloc hands the block to the caller, who overwrites its
\* leading bytes with data of its own
FLAlloc(layout, data) ==
    /\ fl.state = "live"
    /\ LET r == FreeListAlloc(fl, next_ptr, layout)
       IN  /\ fl' = r.self
           /\ fl_result' = FLRes("alloc", NULL, layout, r.ret)
           /\ IF r.ret.ok
              THEN /\ checked_out' = checked_out \cup {r.ret.val}
                   /\ next_ptr' = [next_ptr EXCEPT ![r.ret.val] = data]
                   /\ fl_hist' = Remember(fl_hist, "alloc_ok")
              ELSE /\ data = NULL
                   /\ UNCHANGED <<checked_out, next_ptr>>
                   /\ fl_hist' = Remember(fl_hist,
                                    IF r.ret.err.kind = "Exhausted"
                                    THEN "alloc_oom" ELSE "alloc_rejected")
    /\ UNCHANGED <<heap_out, heap_deallocs, heap_next>>
    /\ UNCHANGED <<scoped_vars, comp_vars, box_vars>>

\* the caller gives back a block it holds, with a layout that fits it
FLDealloc(ptr, layout) ==
    /\ fl.state = "live"
    /\ ptr \in checked_out
    /\ layout.size > 0 /\ layout.size <= fl.block_size
    /\ layout.align <= PtrAlign
    /\ LET r == FreeListDealloc(fl, next_ptr, ptr, layout)
       IN  /\ fl' = r.self
           /\ next_ptr' = r.mem
    /\ checked_out' = checked_out \ {ptr}
    /\ fl_result' = FLRes("dealloc", ptr, layout, Ok(NULL))
    /\ fl_hist' = Remember(fl_hist, "dealloc")
    /\ UNCHANGED <<heap_out, heap_deallocs, heap_next>>
    /\ UNCHANGED <<scoped_vars, comp_vars, box_vars>>

FLDrop ==
    /\ fl.state = "live"
    /\ LET d == FreeListDrop(fl.free_list, next_ptr, 0)
       IN  /\ heap_deallocs' = heap_deallocs \o d
           /\ heap_out' = heap_out \ Range(d)
    /\ fl' = [fl EXCEPT !.state = "dropped"]
    /\ fl_result' = FLRes("drop", NULL, NoLayout, Ok(NULL))
    /\ fl_hist' = Remember(fl_hist, "drop")
    /\ UNCHANGED <<next_ptr, heap_next, checked_out>>
    /\ UNCHANGED <<scoped_vars, comp_vars, box_vars>>

FreeListNext ==
    \/ \E bs \in BlockSizes, n \in 0..MaxBlocks, k \in 0..MaxBlocks :
           NewFrom(bs, n, k)
    \/ \E layout \in FLLayouts, data \in {NULL} \cup DOMAIN next_ptr :
           FLAlloc(layout, data)
    \/ \E ptr \in checked_out, layout \in FLLayouts : FLDealloc(ptr, layout)
    \/ FLDrop

(***************************************************************************)
(* composable.rs: NullAllocator, Fallback and Proxy. An allocator is a     *)
(* value naming its kind and its parts; the operations thread the state    *)
(* `st` they act on: the arenas of the Scoped leaves, the calls made to    *)
(* allocators so far, the lines written to the Proxy's writer, and whether *)
(* the build checks arithmetic overflow.                                   *)
(***************************************************************************)
\* AllocatorError::OutOfMemory
OutOfMemory == [kind |-> "OutOfMemory"]

\* AllocatorError::AllocatorSpecific(details)
AllocatorSpecific(details) == [kind |-> "AllocatorSpecific", details |-> details]

\* a Block of the given pointer, size and alignment
Block(ptr, size, align) == [ptr |-> ptr, size |-> size, align |-> align]

\* Err((err, blk)): a failed reallocate hands the block back
ErrBlk(e, blk) == [ok |-> FALSE, err |-> e, blk |-> blk]

\* err.description()
description(err) ==
    IF err.kind = "AllocatorSpecific" THEN err.details ELSE err.kind

NullAllocator == [kind |-> "null"]

\* a Scoped as a BlockOwner: the id-th arena
ScopedLeaf(id) == [kind |-> "scoped", id |-> id]

\* Fallback::new
Fallback(main, fallback) ==
    [kind |-> "fallback", main |-> main, fallback |-> fallback]

\* Proxy::new
Proxy(alloc) == [kind |-> "proxy", alloc |-> alloc]

\* whoever uses the outermost allocator
Caller == [kind |-> "caller"]

\* what a call that takes no Block has in the place of one
NoBlock == Block(NULL, 0, 0)

\* a call by one party to an allocator: its arguments and what it returned
Call(by, to, op, blk, size, align, ret) ==
    [by |-> by, to |-> to, op |-> op, blk |-> blk, size |-> size,
     align |-> align, ret |-> ret]

\* one write!/writeln! to the writer: the format string and its arguments
Line(fmt, args, text) == [fmt |-> fmt, args |-> args, text |-> text]

RECURSIVE allocate_raw(_, _, _, _, _)
RECURSIVE reallocate_raw(_, _, _, _, _)
RECURSIVE deallocate_raw(_, _, _, _)
RECURSIVE tree_owns_block(_, _, _)

\* ---- NullAllocator ----
\* Faulty variant: allocate that hands out a block nobody owns
NullAllocate_Issues(st, size, align) ==
    [st |-> st, ret |-> Ok(Block(BufBase - 1, size, align))]

NullAllocate(st, size, align) == [st |-> st, ret |-> Err(OutOfMemory)]

NullReallocate(st, blk, new_size) == [st |-> st, ret |-> ErrBlk(OutOfMemory, blk)]

NullDeallocate(st, blk) == [st |-> st, ret |-> Panic]

\* Faulty variant: owns_block that claims every block
NullOwns_Every(blk) == TRUE

NullOwns(blk) == FALSE

\* ---- a Scoped behind the Allocator and BlockOwner interface ----
LeafAllocate(a, st, size, align) ==
    LET r == ScopedAlloc(st.arenas[a.id], Layout(size, align))
    IN  [st |-> [st EXCEPT !.arenas[a.id] = r.self],
         ret |-> IF r.ret.ok THEN Ok(Block(r.ret.val, size, align))
                 ELSE r.ret]

LeafReallocate(a, st, blk, new_size) ==
    LET r == ScopedRealloc(st.arenas[a.id], blk.ptr,
                           Layout(blk.size, blk.align),
                           Layout(new_size, blk.align), st.checks)
    IN  [st |-> [st EXCEPT !.arenas[a.id] = r.self],
         ret |-> IF r.ret = Panic THEN Panic
                 ELSE IF r.ret.ok
                 THEN Ok(Block(r.ret.val, new_size, blk.align))
                 ELSE ErrBlk(r.ret.err, blk)]

LeafDeallocate(a, st, blk) ==
    [st |-> [st EXCEPT !.arenas[a.id] =
                 ScopedDealloc(@, blk.ptr, Layout(blk.size, blk.align))],
     ret |-> Ok(NULL)]

LeafOwns(a, st, blk) == owns_block(st.arenas[a.id], blk.ptr)

\* ---- Fallback ----
\* Faulty variant: allocate that reports main's error when both fail
FallbackAllocate_MainError(a, st, size, align) ==
    LET m == allocate_raw(a.main, a, st, size, align)
    IN  IF m.ret = Panic \/ m.ret.ok
        THEN m
        ELSE LET f == allocate_raw(a.fallback, a, m.st, size, align)
             IN  IF f.ret = Panic \/ f.ret.ok THEN f
                 ELSE [st |-> f.st, ret |-> m.ret]

FallbackAllocate(a, st, size, align) ==
    LET m == allocate_raw(a.main, a, st, size, align)
    IN  IF m.ret = Panic \/ m.ret.ok
        THEN m
        ELSE allocate_raw(a.fallback, a, m.st, size, align)

FallbackReallocate(a, st, blk, new_size) ==
    IF tree_owns_block(a.main, st, blk)
    THEN reallocate_raw(a.main, a, st, blk, new_size)
    ELSE IF tree_owns_block(a.fallback, st, blk)
    THEN reallocate_raw(a.fallback, a, st, blk, new_size)
    ELSE [st |-> st,
          ret |-> ErrBlk(AllocatorSpecific(
                             "Neither fallback nor main owns this block."),
                         blk)]

\* Faulty variant: deallocate that hands a block main does not own to fallback
FallbackDeallocate_ElseFallback(a, st, blk) ==
    IF tree_owns_block(a.main, st, blk)
    THEN deallocate_raw(a.main, a, st, blk)
    ELSE deallocate_raw(a.fallback, a, st, blk)

FallbackDeallocate(a, st, blk) ==
    IF tree_owns_block(a.main, st, blk)
    THEN deallocate_raw(a.main, a, st, blk)
    ELSE IF tree_owns_block(a.fallback, st, blk)
    THEN deallocate_raw(a.fallback, a, st, blk)
    ELSE [st |-> st, ret |-> Ok(NULL)]

FallbackOwns(a, st, blk) ==
    tree_owns_block(a.main, st, blk) \/ tree_owns_block(a.fallback, st, blk)

\* ---- Proxy ----
Write(st, lines) == [st EXCEPT !.written = @ \o lines]

ProxyAllocate(a, st, size, align) ==
    LET r == allocate_raw(a.alloc, a, st, size, align)
    IN  IF r.ret = Panic THEN r
        ELSE IF r.ret.ok
        THEN [st |-> Write(r.st,
                  <<Line("Successfully allocated {} bytes with align {}",
                         <<size, align>>, ""),
                    Line("Returned pointer is {:p}", <<r.ret.val.ptr>>, "")>>),
              ret |-> Ok(r.ret.val)]
        ELSE [st |-> Write(r.st,
                  <<Line("Failed to allocate {} bytes.", <<size>>, ""),
                    Line("Error: {}", <<>>, description(r.ret.err))>>),
              ret |-> Err(r.ret.err)]

\* Faulty variant: reallocate that reports success whatever the outcome
ProxyReallocate_LogsSuccess(a, st, blk, new_size) ==
    LET old_ptr == blk.ptr
        old_size == blk.size
        r == reallocate_raw(a.alloc, a, st, blk, new_size)
    IN  IF r.ret = Panic THEN r
        ELSE [st |-> Write(r.st,
                  <<Line("Successfully reallocated block at pointer {:p}",
                         <<old_ptr>>, ""),
                    Line("Old size: {}, new size: {}",
                         <<old_size, new_size>>, "")>>),
              ret |-> r.ret]

ProxyReallocate(a, st, blk, new_size) ==
    LET old_ptr == blk.ptr
        old_size == blk.size
        r == reallocate_raw(a.alloc, a, st, blk, new_size)
    IN  IF r.ret = Panic THEN r
        ELSE IF r.ret.ok
        THEN [st |-> Write(r.st,
                  <<Line("Successfully reallocated block at pointer {:p}",
                         <<old_ptr>>, ""),
                    Line("Old size: {}, new size: {}",
                         <<old_size, new_size>>, "")>>),
              ret |-> Ok(r.ret.val)]
        ELSE [st |-> Write(r.st,
                  <<Line("Failed to reallocate block at pointer {:p}",
                         <<old_ptr>>, ""),
                    Line("Old size: {}, new size: {}",
                         <<old_size, new_size>>, ""),
                    Line("Error: {}", <<>>, description(r.ret.err))>>),
              ret |-> ErrBlk(r.ret.err, r.ret.blk)]

ProxyDeallocate(a, st, blk) ==
    deallocate_raw(a.alloc, a,
        Write(st, <<Line("Deallocating block at pointer {:p} with size {} and align {}",
                         <<blk.ptr, blk.size, blk.align>>, "")>>),
        blk)

\* ---- the calls of the Allocator and BlockOwner interface on a value ----
allocate_raw(a, by, st, size, align) ==
    LET r == CASE a.kind = "null" -> NullAllocate(st, size, align)
               [] a.kind = "scoped" -> LeafAllocate(a, st, size, align)
               [] a.kind = "fallback" -> FallbackAllocate(a, st, size, align)
               [] a.kind = "proxy" -> ProxyAllocate(a, st, size, align)
    IN  [st |-> [r.st EXCEPT !.calls =
                     Append(@, Call(by, a, "allocate_raw", NoBlock, size, align,
                                    r.ret))],
         ret |-> r.ret]

reallocate_raw(a, by, st, blk, new_size) ==
    LET r == CASE a.kind = "null" -> NullReallocate(st, blk, new_size)
               [] a.kind = "scoped" -> LeafReallocate(a, st, blk, new_size)
               [] a.kind = "fallback" -> FallbackReallocate(a, st, blk, new_size)
               [] a.kind = "proxy" -> ProxyReallocate(a, st, blk, new_size)
    IN  [st |-> [r.st EXCEPT !.calls =
                     Append(@, Call(by, a, "reallocate_raw", blk, new_size,
                                    blk.align, r.ret))],
         ret |-> r.ret]

deallocate_raw(a, by, st, blk) ==
    LET r == CASE a.kind = "null" -> NullDeallocate(st, blk)
               [] a.kind = "scoped" -> LeafDeallocate(a, st, blk)
               [] a.kind = "fallback" -> FallbackDeallocate(a, st, blk)
               [] a.kind = "proxy" -> ProxyDeallocate(a, st, blk)
    IN  [st |-> [r.st EXCEPT !.calls =
                     Append(@, Call(by, a, "deallocate_raw", blk, blk.size,
                                    blk.align, r.ret))],
         ret |-> r.ret]

tree_owns_block(a, st, blk) ==
    CASE a.kind = "null" -> NullOwns(blk)
      [] a.kind = "scoped" -> LeafOwns(a, st, blk)
      [] a.kind = "fallback" -> FallbackOwns(a, st, blk)

(***************************************************************************)
(* The composition as a state machine: callers allocate from the           *)
(* outermost allocator and pass the Blocks they hold, or a Block of some   *)
(* other allocator, to reallocate and deallocate. A panic ends the run.    *)
(***************************************************************************)
Trees ==
    {NullAllocator,
     Fallback(NullAllocator, ScopedLeaf(1)),
     Fallback(ScopedLeaf(1), NullAllocator),
     Fallback(ScopedLeaf(1), ScopedLeaf(2)),
     Fallback(NullAllocator, Fallback(ScopedLeaf(1), ScopedLeaf(2))),
     Fallback(NullAllocator, NullAllocator),
     Proxy(NullAllocator),
     Proxy(ScopedLeaf(1)),
     Proxy(Fallback(ScopedLeaf(1), ScopedLeaf(2)))}

\* a Block that none of the arenas issued
ForeignBlock == Block(BufBase - 1, 1, 1)

\* the Blocks a caller can pass: a Scoped directly behind a Proxy is only
\* given Blocks it issued
Passable ==
    IF tree.kind = "proxy" /\ tree.alloc.kind = "scoped"
    THEN held
    ELSE held \cup {ForeignBlock}

St(checks) ==
    [arenas |-> arenas, calls |-> <<>>, written |-> <<>>, checks |-> checks]

CompRes(op, blk, size, align, ret) ==
    [op |-> op, blk |-> blk, size |-> size, align |-> align, ret |-> ret]

ComposableInit ==
    /\ tree \in Trees
    /\ arenas = <<new_from(BufBase, BufSize),
                  new_from(BufBase + BufSize, BufSize)>>
    /\ held = {}
    /\ calls = <<>>
    /\ written = <<>>
    /\ comp_result = CompRes("new", NoBlock, 0, 0, Ok(NULL))

Allocate(size, align) ==
    /\ comp_result.ret # Panic
    /\ LET r == allocate_raw(tree, Caller, St(FALSE), size, align)
       IN  /\ r.ret.ok => Cardinality(held) < MaxLive
           /\ arenas' = r.st.arenas
           /\ calls' = r.st.calls
           /\ written' = r.st.written
           /\ held' = IF r.ret.ok THEN held \cup {r.ret.val} ELSE held
           /\ comp_result' = CompRes("allocate", NoBlock, size, align, r.ret)
    /\ UNCHANGED tree
    /\ UNCHANGED <<scoped_vars, fl_vars, box_vars>>

Reallocate(blk, new_size, overflow_checks) ==
    /\ comp_result.ret # Panic
    /\ blk \in Passable
    /\ LET r == reallocate_raw(tree, Caller, St(overflow_checks), blk, new_size)
       IN  /\ arenas' = r.st.arenas
           /\ calls' = r.st.calls
           /\ written' = r.st.written
           /\ held' = IF r.ret = Panic THEN {}
                      ELSE IF r.ret.ok THEN (held \ {blk}) \cup {r.ret.val}
                      ELSE held
           /\ comp_result' = CompRes("reallocate", blk, new_size, blk.align,
                                     r.ret)
    /\ UNCHANGED tree
    /\ UNCHANGED <<scoped_vars, fl_vars, box_vars>>

Deallocate(blk) ==
    /\ comp_result.ret # Panic
    /\ blk \in Passable
    /\ LET r == deallocate_raw(tree, Caller, St(FALSE), blk)
       IN  /\ arenas' = r.st.arenas
           /\ calls' = r.st.calls
           /\ written' = r.st.written
           /\ held' = IF r.ret = Panic THEN {} ELSE held \ {blk}
           /\ comp_result' = CompRes("deallocate", blk, blk.size, blk.align,
                                     r.ret)
    /\ UNCHANGED tree
    /\ UNCHANGED <<scoped_vars, fl_vars, box_vars>>

ComposableNext ==
    \/ \E size \in 0..MaxReq, align \in Aligns : Allocate(size, align)
    \/ \E blk \in Passable, new_size \in 0..MaxReq,
          overflow_checks \in BOOLEAN :
           Reallocate(blk, new_size, overflow_checks)
    \/ \E blk \in Passable : Deallocate(blk)

(***************************************************************************)
(* boxed.rs: AllocBox. item is the pointer of Some(Unique) and NULL for    *)
(* None; T is the type the box is typed with, "Any" for a type-erased box. *)
(* The operations return what they do to values and blocks as events.      *)
(***************************************************************************)
Ev(kind, ptr, allocator) == [kind |-> kind, ptr |-> ptr, allocator |-> allocator]

\* Layout::from_size_align(size_of::<T>(), align_of::<T>())
TypeLayout(T) == IF T = "Bomb" THEN Layout(1, 1) ELSE Layout(2, 2)

\* make_place, where ptr is what alloc.alloc(layout) returned (NULL: Err)
make_place(alloc, T, ptr) ==
    IF ptr # NULL
    THEN Ok([allocator |-> alloc,
             block |-> [ptr |-> ptr, layout |-> TypeLayout(T)]])
    ELSE Err(out_of_memory(TypeLayout(T)))

\* InPlace::finalize: the AllocBox that takes over the Place's block
finalize(place, T) ==
    [item |-> place.block.ptr, layout |-> place.block.layout,
     allocator |-> place.allocator, T |-> T]

\* AllocBox::as_ptr: self.item.unwrap().as_ptr()
as_ptr(b) == IF b.item = NULL THEN Panic ELSE Ok(b.item)

\* Faulty variant: drop that gives the block back before it destructs the value
AllocBoxDrop_DeallocFirst(b) ==
    IF b.item # NULL
    THEN <<Ev("dealloc", b.item, b.allocator),
           Ev("drop_in_place", b.item, b.allocator)>>
    ELSE <<>>

\* Drop for AllocBox
AllocBoxDrop(b) ==
    IF b.item # NULL
    THEN <<Ev("drop_in_place", b.item, b.allocator),
           Ev("dealloc", b.item, b.allocator)>>
    ELSE <<>>

\* AllocBox::take. self.item.take() leaves None in self.item; a panic
\* unwinds, dropping the local val and then self.
AllocBoxTake(b) ==
    IF b.item = NULL
    THEN [ret |-> Panic, events |-> AllocBoxDrop(b)]
    ELSE LET item_ptr == b.item
             self == [b EXCEPT !.item = NULL]
             val == Ev("read", item_ptr, b.allocator)
             ptr == as_ptr(self)
         IN  IF ptr = Panic
             THEN [ret |-> Panic,
                   events |-> <<val, Ev("drop", item_ptr, b.allocator)>>
                                  \o AllocBoxDrop(self)]
             ELSE [ret |-> Ok(item_ptr),
                   events |-> <<val, Ev("dealloc", ptr.val, b.allocator)>>
                                  \o AllocBoxDrop(self)]

\* Any::is::<T>() on a value of the runtime type value_type
is_type(value_type, T) == value_type = T

\* Faulty variant: downcast that does not forget the box it consumed
AllocBoxDowncast_DropsSelf(b, T, value_type) ==
    IF is_type(value_type, T)
    THEN [ok |-> TRUE,
          box |-> [item |-> b.item, layout |-> b.layout,
                   allocator |-> b.allocator, T |-> T],
          events |-> AllocBoxDrop(b)]
    ELSE [ok |-> FALSE, box |-> b, events |-> <<>>]

\* AllocBox::downcast::<T>() on a box whose value has the runtime type
\* value_type; mem::forget(self) runs no drop
AllocBoxDowncast(b, T, value_type) ==
    IF is_type(value_type, T)
    THEN [ok |-> TRUE,
          box |-> [item |-> b.item, layout |-> b.layout,
                   allocator |-> b.allocator, T |-> T],
          events |-> <<>>]
    ELSE [ok |-> FALSE, box |-> b, events |-> <<>>]

(***************************************************************************)
(* AllocBoxes as a state machine: values are allocated into boxes through  *)
(* one of two allocators; boxes are dropped, taken and downcast. A panic   *)
(* unwinds and drops every box.                                            *)
(***************************************************************************)
Types == {"Bomb", "Increment"}
BoxAllocators == {1, 2}

NoBox == [item |-> NULL, layout |-> NoLayout, allocator |-> 0, T |-> "none"]

BoxRes(op, arg, T, box, ret) ==
    [op |-> op, arg |-> arg, T |-> T, box |-> box, ret |-> ret]

\* what one event does to the record of the block it is about
ApplyEvent(o, e) ==
    CASE e.kind \in {"drop_in_place", "drop"} ->
             [o EXCEPT !.destructs = @ + 1]
      [] e.kind = "dealloc" ->
             [o EXCEPT !.deallocs = @ + 1, !.dealloc_by = e.allocator]
      [] e.kind = "read" -> [o EXCEPT !.moved = TRUE]
      [] OTHER -> o

RECURSIVE ApplyEvents(_, _)
ApplyEvents(os, evs) ==
    IF evs = <<>> THEN os
    ELSE ApplyEvents([os EXCEPT ![evs[1].ptr] = ApplyEvent(@, evs[1])],
                     Tail(evs))

RECURSIVE DropBoxes(_)
\* every box of bs is dropped
DropBoxes(bs) ==
    IF bs = {} THEN <<>>
    ELSE LET b == CHOOSE x \in bs : \A y \in bs : x.item >= y.item
         IN  AllocBoxDrop(b) \o DropBoxes(bs \ {b})

BoxedInit ==
    /\ boxes = {}
    /\ objs = <<>>
    /\ box_events = <<>>
    /\ box_result = BoxRes("none", NoBox, "none", NoBox, Ok(NULL))

\* allocate(allocator, val) with val of type T; erased: the box is coerced
\* to AllocBox<Any, _>; fails: the allocator has no memory
BoxAllocate(alloc, T, erased, fails) ==
    /\ box_result.ret # Panic
    /\ Cardinality(DOMAIN objs) < MaxBoxes
    /\ LET ptr == IF fails THEN NULL ELSE HeapAddr(Cardinality(DOMAIN objs))
           place == make_place(alloc, T, ptr)
       IN  IF place.ok
           THEN LET b == finalize(place.val, IF erased THEN "Any" ELSE T)
                IN  /\ boxes' = boxes \cup {b}
                    /\ objs' = (ptr :> [type |-> T, allocator |-> alloc,
                                        destructs |-> 0, deallocs |-> 0,
                                        dealloc_by |-> 0, moved |-> FALSE])
                                   @@ objs
                    /\ box_events' = <<Ev("alloc", ptr, alloc)>>
                    /\ box_result' = BoxRes("allocate", NoBox, T, b, Ok(NULL))
           ELSE /\ UNCHANGED <<boxes, objs>>
                /\ box_events' = <<>>
                /\ box_result' = BoxRes("allocate", NoBox, T, NoBox, place)
    /\ UNCHANGED <<scoped_vars, fl_vars, comp_vars>>

BoxDrop(b) ==
    /\ box_result.ret # Panic
    /\ b \in boxes
    /\ LET evs == AllocBoxDrop(b)
       IN  /\ box_events' = evs
           /\ objs' = ApplyEvents(objs, evs)
    /\ boxes' = boxes \ {b}
    /\ box_result' = BoxRes("drop", b, b.T, NoBox, Ok(NULL))
    /\ UNCHANGED <<scoped_vars, fl_vars, comp_vars>>

BoxTake(b) ==
    /\ box_result.ret # Panic
    /\ b \in boxes
    /\ b.T # "Any"
    /\ LET r == AllocBoxTake(b)
           evs == IF r.ret = Panic
                  THEN r.events \o DropBoxes(boxes \ {b})
                  ELSE r.events
       IN  /\ box_events' = evs
           /\ objs' = ApplyEvents(objs, evs)
           /\ boxes' = IF r.ret = Panic THEN {} ELSE boxes \ {b}
           /\ box_result' = BoxRes("take", b, b.T, NoBox, r.ret)
    /\ UNCHANGED <<scoped_vars, fl_vars, comp_vars>>

BoxDowncast(b, T) ==
    /\ box_result.ret # Panic
    /\ b \in boxes
    /\ b.T = "Any"
    /\ LET r == AllocBoxDowncast(b, T, objs[b.item].type)
       IN  /\ box_events' = r.events
           /\ objs' = ApplyEvents(objs, r.events)
           /\ boxes' = (boxes \ {b}) \cup {r.box}
           /\ box_result' = BoxRes("downcast", b, T, r.box,
                                   IF r.ok THEN Ok(NULL) ELSE Err(ScopedErr))
    /\ UNCHANGED <<scoped_vars, fl_vars, comp_vars>>

BoxedNext ==
    \/ \E alloc \in BoxAllocators, T \in Types, erased \in BOOLEAN,
          fails \in BOOLEAN : BoxAllocate(alloc, T, erased, fails)
    \/ \E b \in boxes : BoxDrop(b)
    \/ \E b \in boxes : BoxTake(b)
    \/ \E b \in boxes, T \in Types : BoxDowncast(b, T)

(***************************************************************************)
(* The specifications.                                                     *)
(***************************************************************************)
Init == ScopedInit /\ FreeListInit /\ ComposableInit /\ BoxedInit

\* one Scoped hierarchy, for the behaviours of the FreeList alone
InitFreeList ==
    /\ Init
    /\ scopes = <<new_from(BufBase, BufSize)>>
    /\ tree = NullAllocator

Next ==
    \/ ScopedNext
    \/ FreeListNext
    \/ ComposableNext
    \/ BoxedNext

Spec == Init /\ [][Next]_vars

\* one composition, for the behaviours of the Scoped hierarchy alone
InitScoped ==
    /\ Init
    /\ tree = NullAllocator

\* the Scoped hierarchy alone
SpecScoped == InitScoped /\ [][ScopedNext]_vars

\* the FreeList alone
SpecFreeList == InitFreeList /\ [][FreeListNext]_vars

\* one Scoped hierarchy, for the behaviours of the composition alone
InitComposable ==
    /\ Init
    /\ scopes = <<new_from(BufBase, BufSize)>>

\* the composable allocators alone
SpecComposable == InitComposable /\ [][ComposableNext]_vars

\* one Scoped hierarchy and one composition, for the AllocBoxes alone
InitBoxed ==
    /\ Init
    /\ scopes = <<new_from(BufBase, BufSize)>>
    /\ tree = NullAllocator

SpecBoxed == InitBoxed /\ [][BoxedNext]_vars

(***************************************************************************)
(* Properties of the Scoped hierarchy.                                     *)
(***************************************************************************)
IsInvalidInput(ret) == ~ret.ok /\ ret.err.kind = "Unsupported"
IsOutOfMemory(ret) == ~ret.ok /\ ret.err.kind = "Exhausted"
IsUnsupportedAlignment(ret) == ~ret.ok /\ ret.err = unsupported_alignment

C2_ScopeRestores ==
    [][result'.op = "scope_return" =>
          LET p == Len(scopes) - 1
          IN  /\ Len(scopes') = p
              /\ ~is_scoped(scopes'[p])
              /\ scopes'[p].current = entry_current[Len(entry_current)]
              /\ scopes'[p].start = scopes[p].start
              /\ scopes'[p].end = scopes[p].end]_vars

\* scope() has returned to the root after the child had handed out bytes,
\* and the whole buffer is available to the root again
C2_Witness ==
    /\ result.op = "scope_return"
    /\ result.ret.val > 0
    /\ Len(scopes) = 1
    /\ scopes[1].current = scopes[1].start
    /\ scopes[1].end - scopes[1].current = BufSize

\* C3: on a locked Scoped every alloc fails with InvalidInput and every
\* scope() returns an error without calling f (no call frame, no child);
\* neither changes any Scoped of the chain nor the blocks callers hold.
C3_LockedRejects ==
    [][result'.op \in {"alloc", "scope"} =>
       \A d \in 1..Len(scopes) :
          is_scoped(scopes[d]) =>
              /\ \A layout \in Layouts :
                     Alloc(d, layout) =>
                         /\ IsInvalidInput(result'.ret)
                         /\ UNCHANGED <<scopes, olds, live, parent_deallocs>>
              /\ ScopeCall(d) =>
                     /\ result'.ret = Err(ScopedErr)
                     /\ UNCHANGED <<scopes, olds, live, parent_deallocs>>]_vars

\* an alloc on a locked Scoped has just been refused while a child is active
C3_Witness ==
    /\ Len(scopes) >= 2
    /\ result.op = "alloc"
    /\ IsInvalidInput(result.ret)
    /\ result.ret.err.details = "Called allocate on already scoped allocator."

\* the smallest multiple of align that is >= ptr
AlignedUp(ptr, align) ==
    CHOOSE m \in ptr..(ptr + align - 1) : m % align = 0

\* C6: on an unlocked Scoped, alloc of size > 0 succeeds iff
\* aligned + size <= end, where aligned is the smallest multiple of align
\* that is >= current; it then returns aligned and sets current to
\* aligned + size; otherwise it fails OutOfMemory and changes no Scoped.
C6_AllocBump ==
    [][result'.op = "alloc" =>
       \A d \in 1..Len(scopes), layout \in Layouts :
          (Alloc(d, layout) /\ ~is_scoped(scopes[d]) /\ layout.size > 0) =>
              LET aligned == AlignedUp(scopes[d].current, layout.align)
              IN  IF aligned + layout.size <= scopes[d].end
                  THEN /\ result'.ret = Ok(aligned)
                       /\ scopes' = [scopes EXCEPT
                                        ![d].current = aligned + layout.size]
                  ELSE /\ IsOutOfMemory(result'.ret)
                       /\ scopes' = scopes]_vars

\* an alloc has just filled the buffer of the root exactly
C6_Witness ==
    /\ Len(scopes) = 1
    /\ result.op = "alloc" /\ result.ret.ok
    /\ scopes[1].end > scopes[1].start
    /\ scopes[1].current = scopes[1].end

\* C7: dealloc(ptr, layout) on the Scoped d changes nothing but the current
\* of d, and that only if d is unlocked, layout.size > 0 and
\* ptr + layout.size = current: then current becomes ptr.
C7_DeallocFrame ==
    [][result'.op = "dealloc" =>
       \A d \in 1..Len(scopes), a \in DeallocArgs :
          Dealloc(d, a[1], a[2]) =>
              /\ IF /\ ~is_scoped(scopes[d])
                    /\ a[2].size > 0
                    /\ a[1] + a[2].size = scopes[d].current
                 THEN scopes' = [scopes EXCEPT ![d].current = a[1]]
                 ELSE scopes' = scopes
              /\ UNCHANGED <<olds, parent_deallocs>>]_vars

\* the root has rolled back to its start by deallocs of the last block
C7_Witness ==
    /\ Len(scopes) = 1
    /\ result.op = "dealloc"
    /\ live = {}
    /\ scopes[1].end > scopes[1].start
    /\ scopes[1].current = scopes[1].start

\* C8: the buffer is returned to the parent allocator at most once, and
\* only by the drop of the root Scoped.
C8_RootOnlyFree ==
    /\ Len(parent_deallocs) <= 1
    /\ \A i \in 1..Len(parent_deallocs) :
           /\ parent_deallocs[i].root
           /\ parent_deallocs[i].ptr = BufBase
    /\ parent_deallocs # <<>> => scopes = <<>>

\* a panic in f has unwound a chain of scopes: the children were dropped
\* and the buffer was returned once
C8_Witness ==
    /\ result.op = "unwind"
    /\ scopes = <<>>
    /\ Len(parent_deallocs) = 1

(***************************************************************************)
(* Properties of the FreeList.                                             *)
(***************************************************************************)
\* a request the FreeList does not reject for its size or alignment
Servable(layout) ==
    /\ layout.size > 0
    /\ layout.size <= fl.block_size
    /\ layout.align <= PtrAlign

RECURSIVE FreeChain(_, _, _)
\* the blocks of the free list from p on, in list order
FreeChain(p, mem, n) ==
    IF p = NULL \/ n = 0 THEN <<>>
    ELSE <<p>> \o FreeChain(mem[p], mem, n - 1)

Chain(f, mem) == FreeChain(f.free_list, mem, Cardinality(DOMAIN mem) + 1)

NoDuplicates(s) == \A i, j \in DOMAIN s : s[i] = s[j] => i = j

\* C4: a servable alloc succeeds exactly when fewer than num_blocks blocks
\* are checked out, and fails OutOfMemory otherwise: the first num_blocks
\* allocs succeed, the next one fails, and every dealloc of an outstanding
\* block makes room for exactly one more.
C4_PoolCapacity ==
    [][fl_result'.op = "alloc" =>
       \A layout \in FLLayouts, data \in {NULL} \cup DOMAIN next_ptr :
          (FLAlloc(layout, data) /\ Servable(layout)) =>
              /\ fl_result'.ret.ok <=>
                     Cardinality(checked_out) < fl.num_blocks
              /\ ~fl_result'.ret.ok => IsOutOfMemory(fl_result'.ret)
              /\ fl_result'.ret.ok =>
                     Cardinality(checked_out') = Cardinality(checked_out) + 1]_vars

\* with all MaxBlocks blocks checked out one was given back, the next alloc
\* succeeded and the one after it failed OutOfMemory
C4_Witness ==
    /\ fl.state = "live"
    /\ fl.num_blocks = MaxBlocks
    /\ Cardinality(checked_out) = MaxBlocks
    /\ fl_hist = <<"dealloc", "alloc_ok", "alloc_oom">>

\* C5: the free list is a stack: alloc returns its head and makes the
\* successor stored in the head the new head; dealloc(b) makes b the head
\* with the old head as its successor. So an alloc that follows dealloc(b)
\* returns b, and blocks are re-issued in the reverse order of their return.
C5_Lifo ==
    [][/\ (fl_result'.op = "alloc" /\ fl_result'.ret.ok) =>
              /\ fl_result'.ret.val = fl.free_list
              /\ fl'.free_list = next_ptr[fl.free_list]
              /\ Chain(fl, next_ptr)
                     = <<fl_result'.ret.val>> \o Chain(fl', next_ptr')
       /\ fl_result'.op = "dealloc" =>
              /\ fl'.free_list = fl_result'.ptr
              /\ next_ptr'[fl_result'.ptr] = fl.free_list
              /\ Chain(fl', next_ptr')
                     = <<fl_result'.ptr>> \o Chain(fl, next_ptr)
       /\ (/\ fl_result.op = "dealloc"
           /\ fl_result'.op = "alloc" /\ fl_result'.ret.ok) =>
              fl_result'.ret.val = fl_result.ptr]_vars

\* two blocks were given back and the block given back last was re-issued
C5_Witness ==
    /\ fl_hist = <<"dealloc", "dealloc", "alloc_ok">>
    /\ fl_result.op = "alloc" /\ fl_result.ret.ok
    /\ fl.free_list # NULL
    /\ fl.free_list # fl_result.ret.val

\* C9: new_from with a block_size smaller than a pointer fails InvalidInput
\* and acquires nothing; when the k-th acquisition fails it returns the
\* error of the backing allocator after giving back each of the k - 1
\* blocks it acquired exactly once, so that none is outstanding.
C9_NewFromAllOrNothing ==
    [][fl_result'.op = "new_from" =>
       \A bs \in BlockSizes, n \in 0..MaxBlocks, k \in 0..MaxBlocks :
          NewFrom(bs, n, k) =>
              /\ bs < PtrSize =>
                     /\ IsInvalidInput(fl_result'.ret)
                     /\ UNCHANGED <<heap_next, heap_out, heap_deallocs>>
              /\ (bs >= PtrSize /\ k >= 1) =>
                     /\ fl_result'.ret = Err(HeapErr(Layout(bs, PtrAlign)))
                     /\ heap_next' = k - 1
                     /\ Len(heap_deallocs') = k - 1
                     /\ NoDuplicates(heap_deallocs')
                     /\ Range(heap_deallocs')
                            = {HeapAddr(i) : i \in 0..(k - 2)}
                     /\ heap_out' = {}
              /\ (bs >= PtrSize /\ k = 0) =>
                     /\ fl_result'.ret.ok
                     /\ Cardinality(heap_out') = n
                     /\ heap_deallocs' = <<>>]_vars

\* the last of MaxBlocks acquisitions failed and the blocks acquired before
\* it were given back
C9_Witness ==
    /\ fl.state = "failed"
    /\ IsOutOfMemory(fl_result.ret)
    /\ Len(heap_deallocs) = MaxBlocks - 1
    /\ heap_out = {}

\* C10: alloc fails InvalidInput for size = 0 and for size > block_size,
\* and fails with the error of Error::unsupported_alignment for a size in
\* range with align > pointer alignment; the free list is not consulted
\* (an empty list does not turn the error into OutOfMemory) and a rejected
\* request changes neither the free list nor memory nor the blocks held.
C10_AllocRejects ==
    [][fl_result'.op = "alloc" =>
       \A layout \in FLLayouts, data \in {NULL} \cup DOMAIN next_ptr :
          (FLAlloc(layout, data) /\ ~Servable(layout)) =>
              /\ layout.size = 0 => IsInvalidInput(fl_result'.ret)
              /\ layout.size > fl.block_size => IsInvalidInput(fl_result'.ret)
              /\ (layout.size > 0 /\ layout.size <= fl.block_size) =>
                     IsUnsupportedAlignment(fl_result'.ret)
              /\ ~IsOutOfMemory(fl_result'.ret)
              /\ UNCHANGED <<fl, next_ptr, checked_out, heap_out,
                             heap_deallocs>>]_vars

\* the free list is empty and a request is refused for its alignment
C10_Witness ==
    /\ fl.state = "live"
    /\ fl.num_blocks > 0
    /\ fl.free_list = NULL
    /\ fl_result.op = "alloc"
    /\ IsUnsupportedAlignment(fl_result.ret)

\* the calls FLDrop adds to those made to the backing allocator
Added(old, new) == SubSeq(new, Len(old) + 1, Len(new))

\* C11: dropping the FreeList ends its walk at the null pointer that closes
\* the list, and calls the backing allocator's dealloc exactly once for
\* each block of the pool that is not checked out (the blocks of the free
\* list) and for no block a caller still holds, whatever the caller wrote
\* into it.
C11_DropFreesFreeList ==
    [][fl_result'.op = "drop" =>
       (FLDrop =>
          LET d == Added(heap_deallocs, heap_deallocs')
          IN  /\ heap_deallocs' = heap_deallocs \o d
              /\ NoDuplicates(d)
              /\ Range(d) = heap_out \ checked_out
              /\ Range(d) \cap checked_out = {}
              /\ Len(d) = fl.num_blocks - Cardinality(checked_out)
              /\ Len(d) <= Cardinality(DOMAIN next_ptr)
              /\ d = <<>> => fl.free_list = NULL
              /\ d # <<>> => /\ d[1] = fl.free_list
                             /\ next_ptr[d[Len(d)]] = NULL
                             /\ \A i \in 1..(Len(d) - 1) :
                                    next_ptr[d[i]] = d[i + 1]
              /\ heap_out' = checked_out)]_vars

\* the FreeList was dropped with two blocks in its list while a caller
\* held a block whose leading bytes point into the list
C11_Witness ==
    /\ fl.state = "dropped"
    /\ fl_result.op = "drop"
    /\ Len(heap_deallocs) >= 2
    /\ \E p \in checked_out : next_ptr[p] \in Range(heap_deallocs)
    /\ heap_out = checked_out

(***************************************************************************)
(* Scoped::realloc in place.                                               *)
(***************************************************************************)
\* C20: realloc of the block allocated last (ptr + old size = current) with
\* a new alignment not above the old one and a new size above 0 resizes in
\* place, growing or shrinking: it returns ptr and moves current by
\* new size - old size when the new current does not exceed end (a resize
\* ending exactly at end succeeds), and otherwise fails OutOfMemory and
\* leaves current as it was. Stated of the build in which the subtraction
\* new size - old size wraps instead of panicking, where shrinking works.
C20_ReallocInPlace ==
    [][result'.op = "realloc" =>
       \A d \in 1..Len(scopes), blk \in live, new_layout \in Layouts :
          (/\ Realloc(d, blk, new_layout, FALSE)
           /\ blk.ptr + blk.layout.size = scopes[d].current
           /\ new_layout.align <= blk.layout.align
           /\ new_layout.size > 0) =>
              LET new_cur == scopes[d].current
                                 + new_layout.size - blk.layout.size
              IN  IF new_cur <= scopes[d].end
                  THEN /\ result'.ret = Ok(blk.ptr)
                       /\ Len(scopes') = Len(scopes)
                       /\ scopes'[d].current = new_cur
                  ELSE /\ IsOutOfMemory(result'.ret)
                       /\ scopes' = scopes]_vars

(***************************************************************************)
(* Properties of the composable allocators.                                *)
(***************************************************************************)
\* the calls the allocator a made itself, in order
DirectCalls(a, cs) == SelectSeq(cs, LAMBDA c : c.by = a)

\* C12: Fallback's allocate first calls main's allocate with its size and
\* alignment; when main succeeds it returns main's block and makes no call
\* to fallback; when main fails it calls fallback's allocate with the same
\* size and alignment and returns exactly what that call returned, so on
\* total failure the error is fallback's.
C12_FallbackAllocate ==
    [][(comp_result'.op = "allocate" /\ tree.kind = "fallback") =>
       LET d == DirectCalls(tree, calls')
           size == comp_result'.size
           align == comp_result'.align
       IN  /\ Len(d) >= 1
           /\ d[1] = Call(tree, tree.main, "allocate_raw", NoBlock, size,
                          align, d[1].ret)
           /\ d[1].ret.ok =>
                  /\ Len(d) = 1
                  /\ comp_result'.ret = d[1].ret
           /\ ~d[1].ret.ok =>
                  /\ Len(d) = 2
                  /\ d[2] = Call(tree, tree.fallback, "allocate_raw", NoBlock,
                                 size, align, d[2].ret)
                  /\ comp_result'.ret = d[2].ret]_vars

\* main was exhausted and fallback was not: the block is fallback's
C12_Witness ==
    /\ tree = Fallback(ScopedLeaf(1), ScopedLeaf(2))
    /\ comp_result.op = "allocate"
    /\ comp_result.ret.ok
    /\ Len(calls) = 3
    /\ ~calls[1].ret.ok
    /\ calls[2].to = ScopedLeaf(2)
    /\ comp_result.ret.val.ptr >= arenas[2].start

\* C13: Fallback's reallocate and deallocate ask main whether it owns the
\* block, then fallback: the one call they make is to main when main owns
\* the block, else to fallback when fallback owns it, with the block (and
\* new size) they were given, and they return what it returned. When
\* neither owns the block they call no allocator and change no arena;
\* reallocate then fails AllocatorSpecific handing back the block it was
\* given, deallocate returns normally.
C13_FallbackRoutes ==
    [][(comp_result'.op \in {"reallocate", "deallocate"}
            /\ tree.kind = "fallback") =>
       LET d == DirectCalls(tree, calls')
           blk == comp_result'.blk
           op == IF comp_result'.op = "reallocate" THEN "reallocate_raw"
                 ELSE "deallocate_raw"
           main_owns == tree_owns_block(tree.main, St(FALSE), blk)
           fallback_owns == tree_owns_block(tree.fallback, St(FALSE), blk)
           to == IF main_owns THEN tree.main ELSE tree.fallback
       IN  /\ (main_owns \/ fallback_owns) =>
                  /\ Len(d) = 1
                  /\ d[1] = Call(tree, to, op, blk, comp_result'.size,
                                 blk.align, comp_result'.ret)
           /\ (~main_owns /\ ~fallback_owns) =>
                  /\ d = <<>>
                  /\ Len(calls') = 1
                  /\ arenas' = arenas
                  /\ comp_result'.op = "reallocate" =>
                         /\ ~comp_result'.ret.ok
                         /\ comp_result'.ret.err.kind = "AllocatorSpecific"
                         /\ comp_result'.ret.blk = blk
                         /\ held' = held
                  /\ comp_result'.op = "deallocate" =>
                         comp_result'.ret = Ok(NULL)]_vars

\* a Fallback of two arenas that has issued a block was asked to
\* reallocate a block neither arena owns
C13_Witness ==
    /\ tree = Fallback(ScopedLeaf(1), ScopedLeaf(2))
    /\ held # {}
    /\ comp_result.op = "reallocate"
    /\ comp_result.blk = ForeignBlock
    /\ ~comp_result.ret.ok
    /\ comp_result.ret.err.kind = "AllocatorSpecific"
    /\ Len(calls) = 1

\* the state the operations act on when the arenas are ars
StOf(ars, checks) ==
    [arenas |-> ars, calls |-> <<>>, written |-> <<>>, checks |-> checks]

\* Blocks at every address from just below the first arena to just above
\* the second
ProbeBlocks ==
    {Block(p, 1, 1) : p \in (BufBase - 1)..(BufBase + 2 * BufSize + 1)}

\* C14: a Fallback whose main is the NullAllocator behaves like its
\* fallback X: allocate returns what X's allocate returns from the same
\* state and leaves the arenas as X does; it owns exactly the blocks X
\* owns; reallocate and deallocate of a block X owns return what X's do and
\* leave the arenas as X does; and nothing it does calls the
\* NullAllocator's deallocate.
C14_NullFallbackIsX ==
    [][(comp_result'.op \in {"allocate", "reallocate", "deallocate"}
            /\ tree.kind = "fallback" /\ tree.main = NullAllocator) =>
       LET X == tree.fallback
           blk == comp_result'.blk
           size == comp_result'.size
           align == comp_result'.align
           same(x) == /\ comp_result'.ret = x.ret
                      /\ arenas' = x.st.arenas
       IN  /\ comp_result'.op = "allocate" =>
                  same(allocate_raw(X, tree, St(FALSE), size, align))
           /\ (comp_result'.op = "reallocate"
                   /\ tree_owns_block(X, St(FALSE), blk)) =>
                  \E checks \in BOOLEAN :
                      same(reallocate_raw(X, tree, St(checks), blk, size))
           /\ (comp_result'.op = "deallocate"
                   /\ tree_owns_block(X, St(FALSE), blk)) =>
                  same(deallocate_raw(X, tree, St(FALSE), blk))
           /\ \A b \in held' \cup ProbeBlocks :
                  tree_owns_block(tree, StOf(arenas', FALSE), b)
                      <=> tree_owns_block(X, StOf(arenas', FALSE), b)
           /\ \A i \in DOMAIN calls' :
                  ~(calls'[i].to = NullAllocator
                        /\ calls'[i].op = "deallocate_raw")
           /\ comp_result'.op = "deallocate" => comp_result'.ret # Panic]_vars

\* a Fallback of the NullAllocator and a Fallback of two arenas gave back a
\* block the second arena issued
C14_Witness ==
    /\ tree = Fallback(NullAllocator,
                       Fallback(ScopedLeaf(1), ScopedLeaf(2)))
    /\ comp_result.op = "deallocate"
    /\ comp_result.blk.ptr > arenas[1].end
    /\ comp_result.ret = Ok(NULL)
    /\ \E i \in DOMAIN calls : calls[i].to = ScopedLeaf(2)

\* the logger hook a line opens, "" for a line that continues one
HookOf(line) ==
    CASE line.fmt = "Successfully allocated {} bytes with align {}"
             -> "allocate_success"
      [] line.fmt = "Failed to allocate {} bytes." -> "allocate_fail"
      [] line.fmt = "Successfully reallocated block at pointer {:p}"
             -> "reallocate_success"
      [] line.fmt = "Failed to reallocate block at pointer {:p}"
             -> "reallocate_fail"
      [] line.fmt = "Deallocating block at pointer {:p} with size {} and align {}"
             -> "deallocate"
      [] OTHER -> ""

\* the hooks invoked by writing the lines ls, in order
Hooks(ls) ==
    LET heads == SelectSeq(ls, LAMBDA l : HookOf(l) # "")
    IN  [i \in DOMAIN heads |-> HookOf(heads[i])]

\* the arguments of all the lines ls, in order
RECURSIVE LineArgs(_)
LineArgs(ls) ==
    IF ls = <<>> THEN <<>> ELSE ls[1].args \o LineArgs(Tail(ls))

\* C15: every operation of a Proxy makes exactly one call to the inner
\* allocator, the same operation with the same arguments, and returns what
\* that call returned (a failed reallocate with the block it was given).
\* It invokes exactly one logger hook: deallocate the deallocate hook, and
\* allocate and reallocate, once the inner call has returned, the success
\* hook if it returned Ok and the fail hook if it returned Err, with the
\* sizes and pointers of the operation and the error of the inner call.
C15_ProxyOneHook ==
    [][(comp_result'.op \in {"allocate", "reallocate", "deallocate"}
            /\ tree.kind = "proxy") =>
       LET d == DirectCalls(tree, calls')
           blk == comp_result'.blk
           size == comp_result'.size
           align == comp_result'.align
           ret == comp_result'.ret
           op == comp_result'.op
           lines == written'
       IN  /\ Len(d) = 1
           /\ d[1] = Call(tree, tree.alloc, d[1].op, blk, size, align, ret)
           /\ d[1].op = CASE op = "allocate" -> "allocate_raw"
                          [] op = "reallocate" -> "reallocate_raw"
                          [] op = "deallocate" -> "deallocate_raw"
           /\ op = "deallocate" =>
                  /\ Hooks(lines) = <<"deallocate">>
                  /\ LineArgs(lines) = <<blk.ptr, blk.size, blk.align>>
           /\ (op = "allocate" /\ ret # Panic) =>
                  /\ Hooks(lines) = <<IF ret.ok THEN "allocate_success"
                                      ELSE "allocate_fail">>
                  /\ ret.ok => LineArgs(lines) = <<size, align, ret.val.ptr>>
                  /\ ~ret.ok =>
                         /\ LineArgs(lines) = <<size>>
                         /\ lines[Len(lines)].text = description(ret.err)
           /\ (op = "reallocate" /\ ret # Panic) =>
                  /\ Hooks(lines) = <<IF ret.ok THEN "reallocate_success"
                                      ELSE "reallocate_fail">>
                  /\ LineArgs(lines) = <<blk.ptr, blk.size, size>>
                  /\ ~ret.ok =>
                         /\ ret.blk = blk
                         /\ lines[Len(lines)].text = description(ret.err)]_vars

\* a Proxy holding a block logged a reallocate the inner allocator refused
C15_Witness ==
    /\ tree.kind = "proxy"
    /\ held # {}
    /\ comp_result.op = "reallocate"
    /\ comp_result.blk \in held
    /\ ~comp_result.ret.ok /\ comp_result.ret # Panic
    /\ Len(written) = 3
    /\ HookOf(written[1]) = "reallocate_fail"

\* C16: whoever calls it and whatever the arguments, the NullAllocator's
\* allocate returns the error OutOfMemory, its reallocate returns an error
\* together with the block it was given, its deallocate panics instead of
\* returning, and it owns no block; used on its own it never issues a
\* block and changes no arena.
C16_NullNeverServes ==
    [][comp_result'.op \in {"allocate", "reallocate", "deallocate"} =>
       /\ \A i \in DOMAIN calls' :
              calls'[i].to = NullAllocator =>
                  LET c == calls'[i]
                  IN  /\ c.op = "allocate_raw" => c.ret = Err(OutOfMemory)
                      /\ c.op = "reallocate_raw" =>
                             /\ ~c.ret.ok
                             /\ c.ret # Panic
                             /\ c.ret.blk = c.blk
                      /\ c.op = "deallocate_raw" => c.ret = Panic
       /\ \A b \in held' \cup ProbeBlocks :
              ~tree_owns_block(NullAllocator, StOf(arenas', FALSE), b)
       /\ tree = NullAllocator =>
              /\ Len(calls') = 1
              /\ calls'[1].to = NullAllocator
              /\ comp_result'.ret = calls'[1].ret
              /\ held' = {}
              /\ arenas' = arenas]_vars

\* the NullAllocator was asked to deallocate and panicked
C16_Witness ==
    /\ tree = NullAllocator
    /\ comp_result.op = "deallocate"
    /\ comp_result.blk = ForeignBlock
    /\ comp_result.ret = Panic

(***************************************************************************)
(* Properties of AllocBox.                                                 *)
(***************************************************************************)
\* the events of evs that run a destructor
Destructs(evs) == SelectSeq(evs, LAMBDA e : e.kind \in {"drop_in_place", "drop"})

\* the events of evs that give a block back
Deallocs(evs) == SelectSeq(evs, LAMBDA e : e.kind = "dealloc")

\* C17: dropping an AllocBox first runs the destructor of its value in
\* place and then gives its block back to the allocator the block was
\* allocated from, and does nothing else; it is the only destructor run
\* and the only deallocation of that value and block.
C17_DropDestructsThenDeallocs ==
    [][box_result'.op = "drop" =>
       LET b == box_result'.arg
           p == b.item
           from == objs[p].allocator
       IN  /\ box_events' = <<Ev("drop_in_place", p, from),
                              Ev("dealloc", p, from)>>
           /\ objs[p].destructs = 0 /\ objs[p].deallocs = 0
           /\ objs'[p].destructs = 1 /\ objs'[p].deallocs = 1
           /\ objs'[p].dealloc_by = from
           /\ \A q \in DOMAIN objs : q # p => objs'[q] = objs[q]
           /\ b \notin boxes']_vars

\* a box made through the second allocator was dropped while another box
\* was alive
C17_Witness ==
    /\ box_result.op = "drop"
    /\ box_result.arg.allocator = 2
    /\ objs[box_result.arg.item].deallocs = 1
    /\ objs[box_result.arg.item].destructs = 1
    /\ boxes # {}

\* C18: take() returns the value of the box to the caller, gives the
\* block back exactly once to the allocator it was allocated from and runs
\* no destructor on the value.
C18_TakeMovesOut ==
    [][box_result'.op = "take" =>
       LET b == box_result'.arg
           p == b.item
       IN  /\ box_result'.ret = Ok(p)
           /\ Destructs(box_events') = <<>>
           /\ Deallocs(box_events') = <<Ev("dealloc", p, objs[p].allocator)>>
           /\ objs'[p].destructs = 0
           /\ objs'[p].deallocs = 1]_vars

\* C19: downcast::<T>() of a type-erased box succeeds exactly when the
\* value in it has the runtime type T. On success the box it returns is
\* typed T and has the item, layout and allocator of the box it consumed,
\* which is gone, and nothing is allocated, read, destructed or given
\* back; on failure it returns the box it was given and nothing changes.
\* Either way every block that was not given back belongs to exactly one
\* box, so that dropping the box gives it back exactly once.
C19_Downcast ==
    [][box_result'.op = "downcast" =>
       LET b == box_result'.arg
           p == b.item
           T == box_result'.T
       IN  /\ box_result'.ret.ok <=> objs[p].type = T
           /\ box_events' = <<>>
           /\ objs' = objs
           /\ box_result'.ret.ok =>
                  /\ box_result'.box = [item |-> p, layout |-> b.layout,
                                        allocator |-> b.allocator, T |-> T]
                  /\ boxes' = (boxes \ {b}) \cup {box_result'.box}
           /\ ~box_result'.ret.ok =>
                  /\ box_result'.box = b
                  /\ boxes' = boxes
           /\ \A q \in DOMAIN objs' :
                  /\ objs'[q].deallocs = 0 =>
                         Cardinality({x \in boxes' : x.item = q}) = 1
                  /\ objs'[q].deallocs # 0 =>
                         /\ objs'[q].deallocs = 1
                         /\ {x \in boxes' : x.item = q} = {}]_vars

\* a type-erased box of a Bomb was downcast to Bomb while another box
\* was alive
C19_Witness ==
    /\ box_result.op = "downcast"
    /\ box_result.ret.ok
    /\ box_result.arg.T = "Any"
    /\ box_result.box.T = "Bomb"
    /\ box_result.box \in boxes
    /\ Cardinality(boxes) >= 2

(***************************************************************************)
(* Scoped::realloc by copy.                                                *)
(***************************************************************************)
Min(a, b) == IF a < b THEN a ELSE b

\* the block is not the one allocated last, or a larger alignment is asked
ByCopy(s, blk, new_layout) ==
    ~(/\ blk.ptr + blk.layout.size = s.current
      /\ new_layout.align <= blk.layout.align)

\* C21: a successful realloc of a block that is not the most recent one, or
\* that asks for a larger alignment, allocates a block of the new layout at
\* the bump position (current aligned forward, current then past the new
\* block, so the old slot is not reclaimed), copies exactly
\* min(old size, new size) bytes from the old pointer to the new one, writes
\* no byte outside [new_ptr, new_ptr + new size), and returns the new pointer.
C21_ReallocCopies ==
    [][result'.op = "realloc" =>
       \A d \in 1..Len(scopes), blk \in live, new_layout \in Layouts,
          overflow_checks \in BOOLEAN :
          (/\ Realloc(d, blk, new_layout, overflow_checks)
           /\ ByCopy(scopes[d], blk, new_layout)
           /\ result'.ret.ok) =>
              LET new_ptr == align_forward(scopes[d].current, new_layout.align)
              IN  /\ result'.ret = Ok(new_ptr)
                  /\ scopes'[d].current = new_ptr + new_layout.size
                  /\ copied' = copy_nonoverlapping(blk.ptr, new_ptr,
                                   Min(blk.layout.size, new_layout.size))
                  /\ copied'.dst >= new_ptr
                  /\ copied'.dst + copied'.count <= new_ptr + new_layout.size]_vars

\* a realloc by copy to a smaller size has happened
C21_Witness ==
    /\ result.op = "realloc"
    /\ result.ret.ok
    /\ copied # NoCopy
    /\ \E b \in live : b.ptr = copied.dst /\ b.layout.size < copied.count

(***************************************************************************)
(* The bump pointer of a Scoped.                                           *)
(***************************************************************************)
\* C23: every unlocked Scoped, root or child, has start <= current <= end
\* after any sequence of alloc, realloc, dealloc and scope() calls, a child
\* deallocating or reallocating a block of its parent included.
C23_CurrentInBounds ==
    \A d \in 1..Len(scopes) :
        ~is_scoped(scopes[d]) =>
            /\ scopes[d].start <= scopes[d].current
            /\ scopes[d].current <= scopes[d].end

(***************************************************************************)
(* Scoped::owns_block.                                                     *)
(***************************************************************************)
\* the pointers owns_block is asked about
ProbePtrs == (BufBase - 1)..(BufBase + BufSize + 1)

\* C22: a Scoped owns ptr iff start <= ptr <= end; as a result every scope
\* owns each block it has issued, and a child scope owns no block that its
\* parent issued before the child was entered.
C22_Owns ==
    /\ \A d \in 1..Len(scopes), ptr \in ProbePtrs :
           owns_block(scopes[d], ptr)
               <=> (scopes[d].start <= ptr /\ ptr <= scopes[d].end)
    /\ \A b \in live :
           b.depth <= Len(scopes) => owns_block(scopes[b.depth], b.ptr)
    /\ \A b \in live, d \in 2..Len(scopes) :
           b.depth = d - 1 => ~owns_block(scopes[d], b.ptr)

(***************************************************************************)
(* The blocks of one Scoped buffer.                                        *)
(***************************************************************************)
BlockEnd(b) == b.ptr + b.layout.size

Disjoint(b1, b2) == BlockEnd(b1) <= b2.ptr \/ BlockEnd(b2) <= b1.ptr

\* C24: the live blocks of one buffer never overlap: two blocks that alloc or
\* realloc returned on the root or a nested scope, not deallocated and of a
\* scope that has not ended, occupy disjoint byte ranges inside [start, end)
\* of the root buffer; a block that alloc or realloc returns is disjoint from
\* every block that stays live.
C24_NoOverlap ==
    /\ [](\A b \in live :
              /\ scopes[1].start <= b.ptr
              /\ BlockEnd(b) <= scopes[1].end
              /\ \A b2 \in live \ {b} : Disjoint(b, b2))
    /\ [][(result'.op = "alloc" /\ result'.ret.ok) =>
             \E n \in live' \ live :
                 /\ n.ptr = result'.ret.val
                 /\ \A b \in live : Disjoint(b, n)]_vars
    /\ [][(result'.op = "realloc" /\ result'.ret.ok) =>
             \E blk \in live, n \in live' :
                 /\ n.ptr = result'.ret.val
                 /\ live' = (live \ {blk}) \cup {n}
                 /\ \A b \in live \ {blk} : Disjoint(b, n)]_vars

\* two blocks are live, one of a child scope that has rolled its current
\* back over a block of its parent
C24_Witness ==
    /\ Cardinality(live) = 2
    /\ \E d \in 2..Len(scopes), b \in live :
           /\ b.depth = d
           /\ b.ptr < scopes[d].start
    /\ result.op \in {"alloc", "realloc"}
    /\ result.ret.ok

(***************************************************************************)
(* The pool of a FreeList.                                                 *)
(***************************************************************************)
\* C25: a FreeList conserves its pool: after any sequence of allocs and of
\* deallocs of blocks it issued and has not got back, the free list is a
\* chain without duplicates that ends in null, no block is both free and
\* checked out, and free blocks + checked-out blocks = num_blocks.
C25_PoolConserved ==
    fl.state = "live" =>
        LET free == Chain(fl, next_ptr)
        IN  /\ NoDuplicates(free)
            /\ IF free = <<>> THEN fl.free_list = NULL
               ELSE next_ptr[free[Len(free)]] = NULL
            /\ Range(free) \cap checked_out = {}
            /\ Len(free) + Cardinality(checked_out) = fl.num_blocks

\* a block came back and was issued again while another is free, and a
\* caller has left a non-null word in a block it holds
C25_Witness ==
    /\ fl.state = "live"
    /\ fl.num_blocks = MaxBlocks
    /\ fl_hist = <<"alloc_ok", "dealloc", "alloc_ok">>
    /\ fl.free_list # NULL
    /\ \E p \in checked_out : next_ptr[p] # NULL

(***************************************************************************)
(* Fallback of two Scoped allocators.                                      *)
(***************************************************************************)
\* the Scoped leaf that issued blk: an arena issues blocks inside its buffer
\* [start, end), and the buffers of the arenas are disjoint
IssuerOf(blk) ==
    IF arenas[1].start <= blk.ptr /\ blk.ptr < arenas[1].end
    THEN ScopedLeaf(1)
    ELSE ScopedLeaf(2)

\* a Fallback of two Scoped allocators
TwoScoped(a) ==
    /\ a.kind = "fallback"
    /\ a.main.kind = "scoped"
    /\ a.fallback.kind = "scoped"

\* C26: a block obtained from allocate of a Fallback of two Scoped allocators
\* over distinct buffers, adjacent ones included, is given back to the
\* sub-allocator that issued it: the Fallback delegates deallocate and
\* reallocate of a block that fallback issued to fallback, never to main,
\* and of a block that main issued to main.
C26_BackToIssuer ==
    [][(comp_result'.op \in {"reallocate", "deallocate"}
            /\ comp_result'.blk \in held) =>
       \A i \in DOMAIN calls' :
           TwoScoped(calls'[i].by) =>
               calls'[i].to = IssuerOf(comp_result'.blk)]_vars

\* a block at the start of the second arena went back through the Fallback
C26_Witness ==
    /\ tree = Fallback(ScopedLeaf(1), ScopedLeaf(2))
    /\ comp_result.op \in {"reallocate", "deallocate"}
    /\ comp_result.blk.ptr = arenas[2].start
    /\ comp_result.blk.ptr = arenas[1].end
    /\ \E i \in DOMAIN calls : calls[i].by = tree

====
